---- MODULE Spec2Model ----
(***************************************************************************)
(* A model of DimensionSkein, the extrusion-synthesis pass of              *)
(* skeinforge_plugins/craft_plugins/dimension.py.                          *)
(*                                                                         *)
(* Reals are modelled in fixed point: a length, rate, ratio or area r is   *)
(* the integer r * Scale, products and quotients are rescaled and          *)
(* truncated.  The X, Y, Z and R words of a line are whole millimetres;    *)
(* its F word and the value of an annotation or M108 are fixed point.      *)
(* A gcode line is a record: its first word, whether it has leading white  *)
(* space, and the values of the words the pass reads.  The output buffer   *)
(* is the sequence of the lines written, in the same representation, with  *)
(* the E word the pass appends.                                            *)
(***************************************************************************)
EXTENDS Integers, Sequences, FiniteSets, TLC

\* ------------------------------------------------------------------------
\* Numbers

\* The fixed-point unit: three decimal places, as the rounded output carries.
Scale == 1000

\* math.pi in fixed point.
PiScaled == 3142

\* Python's None, and a present value.
None == << >>
Some(v) == << v >>
Val(o) == o[1]

Abs(a) == IF a < 0 THEN -a ELSE a

\* Division truncating toward zero, for a positive divisor.
TruncDiv(n, d) == IF n >= 0 THEN n \div d ELSE -((-n) \div d)

\* a * b and a / b of two fixed-point numbers (b > 0).
Mul(a, b) == TruncDiv(a * b, Scale)
Div(a, b) == TruncDiv(a * Scale, b)

RECURSIVE IsqrtIter(_, _)
IsqrtIter(n, x) ==
    LET y == (x + n \div x) \div 2
    IN IF y >= x THEN x ELSE IsqrtIter(n, y)

\* The integer square root (floor) of n >= 0.
Isqrt(n) == IF n <= 0 THEN 0 ELSE IsqrtIter(n, n)

\* math.sqrt of a fixed-point number.
Sqrt(a) == Isqrt(a * Scale)

\* ------------------------------------------------------------------------
\* Vector3 (whole millimetres) and the 2D points of boundary loops

Vector3(x, y, z) == [x |-> x, y |-> y, z |-> z]
Origin == Vector3(0, 0, 0)
VAdd(a, b) == Vector3(a.x + b.x, a.y + b.y, a.z + b.z)
VSub(a, b) == Vector3(a.x - b.x, a.y - b.y, a.z - b.z)

\* abs(vector): the Euclidean norm, in fixed point.
VAbs(a) == Isqrt((a.x * a.x + a.y * a.y + a.z * a.z) * Scale * Scale)

\* abs(vector.dropAxis()): the norm of the XY projection, in fixed point.
XYAbs(a) == Isqrt((a.x * a.x + a.y * a.y) * Scale * Scale)

\* vector.dropAxis(): the XY projection.
DropAxis(a) == [x |-> a.x, y |-> a.y]

\* ------------------------------------------------------------------------
\* Lines

\* A line with first word w and no other word the pass reads.
Line(w) ==
    [word |-> w, lead |-> FALSE, x |-> None, y |-> None, z |-> None,
     f |-> None, r |-> None, v |-> None, e |-> None]

\* A line "w v": an annotation or M108 with its value.
LineV(w, v) == [Line(w) EXCEPT !.v = Some(v)]

\* The same line with leading white space.
Indented(l) == [l EXCEPT !.lead = TRUE]

\* Words that begin with a bracket.
BracketWords ==
    {"(<layer>", "(<boundaryPoint>", "(</boundaryPerimeter>)",
     "(</extruderInitialization>)", "(<layerThickness>",
     "(<maximumZDrillFeedRatePerSecond>", "(<maximumZTravelFeedRatePerSecond>",
     "(<operatingFeedRatePerSecond>", "(<operatingFlowRate>",
     "(<perimeterWidth>", "(<travelFeedRatePerSecond>", "(<nozzleDiameter>",
     "(<procedureName>"}

\* Words of a line that tokenizes to no word: the empty (or white-space) line
\* and the line that is only a semicolon comment.
NoWordWords == {"", ";"}

\* gcodec.getFirstWord(gcodec.getSplitLineBeforeBracketSemicolon(line)) of a
\* line that was not stripped: the text before a bracket that is not at
\* column 0 is all that is split, so an indented bracket line has no word.
FirstWord(l) ==
    IF l.word \in NoWordWords THEN ""
    ELSE IF l.lead /\ l.word \in BracketWords THEN ""
    ELSE l.word

\* line.lstrip()
Lstrip(l) == [l EXCEPT !.lead = FALSE]

\* The text of the line is the empty string.
IsEmptyText(l) == l.word = "" /\ ~l.lead

\* distanceFeedRate.addLine(line): an empty string is not written.
AddLine(out, l) == IF IsEmptyText(l) THEN out ELSE Append(out, l)

\* distanceFeedRate.output.write(line + '\n')
Write(out, l) == Append(out, l)

\* gcodec.getLocationFromSplitLine(oldLocation, splitLine): the axes the line
\* gives, the others from oldLocation, or from the origin when it is None.
GetLocationFromSplitLine(old, l) ==
    LET base == IF old = None THEN Origin ELSE Val(old)
    IN Vector3(IF l.x = None THEN base.x ELSE Val(l.x),
               IF l.y = None THEN base.y ELSE Val(l.y),
               IF l.z = None THEN base.z ELSE Val(l.z))

\* gcodec.getFeedRateMinute(feedRateMinute, splitLine): the F word if any.
GetFeedRateMinute(feedRateMinute, l) ==
    IF l.f = None THEN feedRateMinute ELSE l.f

\* ------------------------------------------------------------------------
\* Boundary loops (euclidean, triangle_mesh)

\* euclidean.getXIntersectionIfExists(begin, end, y) < point.x, for an edge
\* that crosses the horizontal line through the point; the quotient is
\* compared by cross-multiplication.
CrossesToLeft(b, e, p) ==
    /\ (p.y > b.y) # (p.y > e.y)
    /\ LET dy == e.y - b.y
           lhs == (p.y - b.y) * (e.x - b.x)
           rhs == (p.x - b.x) * dy
       IN IF dy > 0 THEN lhs < rhs ELSE lhs > rhs

\* euclidean.getNumberOfIntersectionsToLeft(loop, point)
NumberOfIntersectionsToLeft(loop, p) ==
    Cardinality({i \in 1..Len(loop) :
                    CrossesToLeft(loop[i], loop[(i % Len(loop)) + 1], p)})

\* euclidean.isPointInsideLoop(loop, point): ray casting, odd crossings.
IsPointInsideLoop(loop, p) == NumberOfIntersectionsToLeft(loop, p) % 2 = 1

RECURSIVE ShoelaceSum(_, _)
ShoelaceSum(loop, i) ==
    IF i > Len(loop) THEN 0
    ELSE LET a == loop[i]
             b == loop[(i % Len(loop)) + 1]
         IN (a.x * b.y - b.x * a.y) + ShoelaceSum(loop, i + 1)

\* Twice euclidean.getAreaLoopAbsolute(loop).
AreaLoopAbsolute(loop) == Abs(ShoelaceSum(loop, 1))

\* One loop inserted into loops sorted by ascending area, after its equals.
RECURSIVE InsertByArea(_, _)
InsertByArea(sorted, loop) ==
    IF sorted = << >> THEN << loop >>
    ELSE IF AreaLoopAbsolute(loop) < AreaLoopAbsolute(Head(sorted))
         THEN << loop >> \o sorted
         ELSE << Head(sorted) >> \o InsertByArea(Tail(sorted), loop)

\* triangle_mesh.sortLoopsInOrderOfArea(False, loops): a stable ascending sort.
RECURSIVE SortLoopsInOrderOfArea(_)
SortLoopsInOrderOfArea(loops) ==
    IF loops = << >> THEN << >>
    ELSE InsertByArea(SortLoopsInOrderOfArea(SubSeq(loops, 1, Len(loops) - 1)),
                      loops[Len(loops)])

\* The scan of parseBoundaries from line i (1-based) on. acc.layers is the
\* list of layers, each the list of its loops; acc.open is the loop points
\* are appended to (its layer and place), None when the next point opens a
\* loop; acc.fault is set when the scan raises.
RECURSIVE BoundaryScan(_, _, _)
BoundaryScan(ls, i, acc) ==
    IF acc.fault \/ i > Len(ls) THEN acc
    ELSE
      LET l == ls[i]
          w == FirstWord(l)
          n == Len(acc.layers)
      IN IF w = "(</boundaryPerimeter>)"
           THEN BoundaryScan(ls, i + 1, [acc EXCEPT !.open = None])
         ELSE IF w = "(<boundaryPoint>"
           THEN LET pt == DropAxis(GetLocationFromSplitLine(None, l))
                IN IF acc.open # None
                     THEN LET at == Val(acc.open)
                          IN BoundaryScan(ls, i + 1,
                               [acc EXCEPT !.layers[at[1]][at[2]] =
                                               Append(@, pt)])
                   \* boundaryLayer is None before the first layer line
                   ELSE IF n = 0 THEN [acc EXCEPT !.fault = TRUE]
                   ELSE BoundaryScan(ls, i + 1,
                          [acc EXCEPT !.layers[n] = Append(@, << pt >>),
                                      !.open = Some(<< n, Len(acc.layers[n]) + 1 >>)])
         ELSE IF w = "(<layer>"
           \* float(splitLine[1]) of a layer line with no value raises
           THEN IF l.v = None THEN [acc EXCEPT !.fault = TRUE]
                ELSE BoundaryScan(ls, i + 1,
                       [acc EXCEPT !.layers = Append(@, << >>)])
         ELSE BoundaryScan(ls, i + 1, acc)

\* The loops of every layer sorted by area (lines 414-415).
SortLayers(acc) ==
    [fault |-> acc.fault,
     layers |-> [k \in 1..Len(acc.layers) |->
                    SortLoopsInOrderOfArea(acc.layers[k])]]

\* parseBoundaries: the layers of lines[lineIndex :], each with its loops
\* sorted by area; fault when the scan raised.
ParseBoundariesOf(ls, lineIndex0) ==
    SortLayers(BoundaryScan(ls, lineIndex0 + 1,
                            [layers |-> << >>, open |-> None, fault |-> FALSE]))

\* The first place, from k on, of a loop of loops that encloses the point:
\* the 0-based index in Some, or None.
RECURSIVE FirstEnclosing(_, _, _)
FirstEnclosing(loops, p, k) ==
    IF k > Len(loops) THEN None
    ELSE IF IsPointInsideLoop(loops[k], p) THEN Some(k - 1)
    ELSE FirstEnclosing(loops, p, k + 1)

\* getSmallestEnclosureIndex(point): boundaryLayers[layerIndex] raises when
\* the index is out of range; Python's index -1 is the last layer.
GetSmallestEnclosureIndex(layers, layerIdx, p) ==
    IF layerIdx >= Len(layers) \/ layerIdx < -Len(layers)
      THEN [fault |-> TRUE, index |-> None]
      ELSE [fault |-> FALSE,
            index |-> FirstEnclosing(
                        layers[IF layerIdx < 0 THEN Len(layers) + layerIdx + 1
                               ELSE layerIdx + 1], p, 1)]

\* ------------------------------------------------------------------------
\* The settings and the state of the pass

\* DimensionRepository.__init__: the default settings.
DefaultRepository ==
    [filamentDiameter |-> 2800,
     filamentPackingDensity |-> 1000,
     activateFixedRetract |-> TRUE,
     activateAdaptiveRetract |-> FALSE,
     extruderRetractionSpeed |-> 13300,
     retractionDistance |-> 0,
     restartExtraDistance |-> 0,
     retractWithinIsland |-> FALSE,
     minimumTravelForRetraction |-> 1000,
     oozeRate |-> 75000,
     afterOooze |-> 1000,
     maxRetract |-> 20000,
     minRetract |-> 300,
     useFilamentDiameter |-> TRUE,
     maximumEValueBeforeReset |-> 91234000,
     relativeExtrusionDistance |-> FALSE]

VARIABLES
    repository,   \* the settings getCraftedGcode is given
    lines,        \* self.lines: archive.getTextLines(gcodeText)
    skein,        \* the DimensionSkein object: its attributes, and the
                  \* lines written to distanceFeedRate.output
    lineIndex,    \* the index (from 0) the running loop takes next:
                  \* self.lineIndex in parseInitialization, the local
                  \* lineIndex of getCraftedGcode in the main loop
    pc            \* where getCraftedGcode is: "parseInitialization",
                  \* "parseBoundaries", "parseLine", "returned", "raised"

vars == << repository, lines, skein, lineIndex, pc >>

\* DimensionSkein.__init__
NewSkein ==
    [absoluteDistanceMode |-> TRUE,
     boundaryLayers |-> << >>,
     output |-> << >>,
     feedRateMinute |-> None,
     isExtruderActive |-> FALSE,
     layerIndex |-> -1,
     lineIndex |-> 0,
     maximumZTravelFeedRatePerSecond |-> None,
     oldLocation |-> None,
     operatingFlowRate |-> None,
     retractionRatio |-> Scale,
     totalExtrusionDistance |-> 0,
     travelFeedRatePerSecond |-> None,
     zDistanceRatio |-> 5 * Scale,
     autoRetractDistance |-> 0,
     timeToNextThread |-> None,
     layerThickness |-> 0,
     perimeterWidth |-> 0,
     filamentXsection |-> 0,
     extrusionXsection |-> None,
     flowRate |-> 0,
     extrusionReduction |-> Scale]

\* getCraftedGcode, lines 231-233, 255-256: values derived from the settings.
filamentRadius == TruncDiv(repository.filamentDiameter, 2)
minimumTravelForRetraction == repository.minimumTravelForRetraction
doubleMinimumTravelForRetraction ==
    minimumTravelForRetraction + minimumTravelForRetraction
restartDistance ==
    repository.retractionDistance + repository.restartExtraDistance
extruderRetractionSpeedMinute == 60 * repository.extruderRetractionSpeed

\* "not self.oldLocation": no location has been stored.  The locations the
\* inputs below store are never the origin, so the truth value of a Vector3
\* at the origin does not matter.
HasNoLocation(loc) == loc = None

\* A result of a method that may raise: the state it leaves, its value.
Ok(s, value) == [fault |-> FALSE, skein |-> s, value |-> value]
Raise(s) == [fault |-> TRUE, skein |-> s, value |-> None]

\* A value bound to a name; the rest of a method after a call that may raise,
\* on the state the call left, or on that state and the call's value.
With(v, F(_)) == F(v)
Then(r, F(_)) == IF r.fault THEN r ELSE F(r.skein)
ThenValue(r, F(_, _)) == IF r.fault THEN r ELSE F(r.skein, r.value)

\* ------------------------------------------------------------------------
\* Feed lengths

\* The lines addLinearMoveExtrusionDistanceLine writes: 'G1 F...', 'G1 E...'.
MoveF(f) == [Line("G1") EXCEPT !.f = Some(f)]
MoveE(e) == [Line("G1") EXCEPT !.e = Some(e)]

\* Variants of getExtrusionDistanceStringFromExtrusionDistance: one that takes
\* the distance off the total, one that accumulates in relative format too.
SubtractedExtrusionDistance(s, extrusionDistance) ==
    IF repository.relativeExtrusionDistance
      THEN [fault |-> FALSE, skein |-> s, value |-> << extrusionDistance >>]
      ELSE [fault |-> FALSE,
            skein |-> [s EXCEPT !.totalExtrusionDistance = @ - extrusionDistance],
            value |-> << s.totalExtrusionDistance - extrusionDistance >>]
CumulativeExtrusionDistance(s, extrusionDistance) ==
    [fault |-> FALSE,
     skein |-> [s EXCEPT !.totalExtrusionDistance = @ + extrusionDistance],
     value |-> << s.totalExtrusionDistance + extrusionDistance >>]

\* getExtrusionDistanceStringFromExtrusionDistance: the E word is the
\* distance itself in relative format, the new total in absolute format.
GetExtrusionDistanceStringFromExtrusionDistance(s, extrusionDistance) ==
    IF repository.relativeExtrusionDistance
      THEN Ok(s, Some(extrusionDistance))
      ELSE Ok([s EXCEPT !.totalExtrusionDistance = @ + extrusionDistance],
              Some(s.totalExtrusionDistance + extrusionDistance))

\* x ** 2 * math.pi
SquareTimesPi(x) == Mul(Mul(x, x), PiScaled)

\* Line 343: ((layerThickness/2 + perimeterWidth/2)/2) ** 2 * math.pi
ExtrusionXsection(s) ==
    SquareTimesPi(TruncDiv(TruncDiv(s.layerThickness, 2)
                           + TruncDiv(s.perimeterWidth, 2), 2))

\* Line 345: (filamentDiameter/2) ** 2 * math.pi
FilamentXsection == SquareTimesPi(TruncDiv(repository.filamentDiameter, 2))

\* Lines 349-352: filamentXsection / extrusionXsection, or 1.
ExtrusionReduction(filamentXsection, extrusionXsection) ==
    IF repository.useFilamentDiameter
      THEN Div(filamentXsection, extrusionXsection) ELSE Scale

\* A variant of lines 358, 368 without the factor 10.
ExtrusionDistanceUnscaled(flowRate, extrusionXsection, distance, extrusionReduction) ==
    Div(Mul(Mul(flowRate, extrusionXsection), distance), extrusionReduction)

\* Lines 358, 368: (flowRate * 10 * extrusionXsection * distance)
\* / extrusionReduction
ExtrusionDistance(flowRate, extrusionXsection, distance, extrusionReduction) ==
    Div(Mul(Mul(flowRate * 10, extrusionXsection), distance),
        extrusionReduction)

\* Lines 343-368 of getExtrusionDistanceString, for an active extruder and a
\* positive distance; filamentXsection / extrusionXsection may divide by zero.
GetExtrusionDistanceStringActive(s, distance) ==
    With([s EXCEPT !.extrusionXsection = Some(ExtrusionXsection(s)),
                   !.filamentXsection = FilamentXsection],
      LAMBDA s2 :
        IF repository.useFilamentDiameter /\ s2.extrusionXsection = Some(0)
          THEN Raise(s2)
          ELSE With([s2 EXCEPT !.extrusionReduction =
                         ExtrusionReduction(s2.filamentXsection,
                                            Val(s2.extrusionXsection))],
                 LAMBDA s3 :
                   GetExtrusionDistanceStringFromExtrusionDistance(s3,
                     ExtrusionDistance(s3.flowRate, Val(s3.extrusionXsection),
                                       distance, s3.extrusionReduction))))

\* A variant of lines 334-342 without the test of line 336.
HasNoExtrusionUnlessZero(s, distance) == ~s.isExtruderActive \/ distance < 0

\* Lines 334-342: no E word for an inactive extruder or a distance <= 0.
HasNoExtrusion(s, distance) ==
    ~s.isExtruderActive \/ distance = 0 \/ distance < 0

\* getExtrusionDistanceString(distance, splitLine): the E word of a motion
\* line, None for the empty string.
GetExtrusionDistanceString(s, distance, l) ==
    With([s EXCEPT !.feedRateMinute = GetFeedRateMinute(@, l)],
      LAMBDA s1 :
        IF HasNoExtrusion(s1, distance) THEN Ok(s1, None)
        ELSE GetExtrusionDistanceStringActive(s1, distance))

\* Lines 223-225: the three lines of a retraction or restart move, the E word
\* being e; getRounded of a feed rate that is None raises.
WriteLinearMove(s, e) ==
    IF s.feedRateMinute = None THEN Raise(s)
    ELSE Ok([s EXCEPT !.output =
                 Write(Write(Write(@, MoveF(extruderRetractionSpeedMinute)),
                             MoveE(Val(e))),
                       MoveF(Val(s.feedRateMinute)))],
            None)

\* addLinearMoveExtrusionDistanceLine(extrusionDistance): the retraction or
\* restart move, written only for a non-zero retraction speed.
AddLinearMoveExtrusionDistanceLine(s, extrusionDistance) ==
    IF repository.extruderRetractionSpeed = 0 THEN Ok(s, None)
    ELSE ThenValue(
           GetExtrusionDistanceStringFromExtrusionDistance(s, extrusionDistance),
           LAMBDA s1, e : WriteLinearMove(s1, e))

\* ------------------------------------------------------------------------
\* Motion lines

\* asin(t) of a fixed-point t in [0, 1), by the first two terms of its series.
Asin(t) == t + TruncDiv(Mul(Mul(t, t), t), 6)

\* sqrt(a * a + b * b)
Hypot(a, b) == Isqrt(a * a + b * b)

\* angle * radius of gcodec.getArcDistance.
ArcLength(half, radius) ==
    IF radius <= 0 THEN 0
    ELSE IF half < radius THEN Mul(2 * Asin(Div(half, radius)), radius)
    ELSE Mul(Mul(PiScaled, Div(half, radius)), radius)

\* gcodec.getArcDistance(relativeLocation, splitLine) for an arc given by its
\* R word; without a radius the call raises (fault).
GetArcDistance(relativeLocation, l) ==
    IF l.r = None THEN [fault |-> TRUE, value |-> 0]
    ELSE [fault |-> FALSE,
          value |-> Hypot(ArcLength(TruncDiv(XYAbs(relativeLocation), 2),
                                    Val(l.r) * Scale),
                          relativeLocation.z * Scale)]

\* The motion line with the E word appended.
WithE(l, r) == [r EXCEPT !.value = [l EXCEPT !.e = r.value]]

\* Lines 269-270: the arc distance and the E word.
DimensionArc(s, l, d) ==
    IF d.fault THEN Raise(s)
    ELSE WithE(l, GetExtrusionDistanceString(s, d.value, l))

\* getDimensionedArcMovement(line, splitLine)
GetDimensionedArcMovement(s, l) ==
    IF HasNoLocation(s.oldLocation) THEN Ok(s, l)
    ELSE With(GetLocationFromSplitLine(s.oldLocation, l),
           LAMBDA relativeLocation :
             DimensionArc([s EXCEPT !.oldLocation =
                               Some(VAdd(Val(@), relativeLocation))],
                          l, GetArcDistance(relativeLocation, l)))

\* Lines 277-280: the move in absolute mode.
AbsoluteMovement(s, l, location) ==
    WithE(l, GetExtrusionDistanceString(
               [s EXCEPT !.oldLocation = Some(location)],
               IF s.oldLocation # None
                 THEN VAbs(VSub(location, Val(s.oldLocation))) ELSE 0,
               l))

\* Lines 285-287: the move in relative mode, from a stored location.
RelativeMovement(s, l, location) ==
    WithE(l, GetExtrusionDistanceString(
               [s EXCEPT !.oldLocation = Some(VAdd(Val(@), location))],
               VAbs(location), l))

\* getDimensionedLinearMovement(line, splitLine); in relative mode with no
\* location stored, line 284 names Vector3, which the module does not
\* import: the call raises NameError.
GetDimensionedLinearMovement(s, l) ==
    IF s.absoluteDistanceMode
      THEN AbsoluteMovement(s, l, GetLocationFromSplitLine(s.oldLocation, l))
      ELSE IF HasNoLocation(s.oldLocation) THEN Raise(s)
      ELSE RelativeMovement(s, l, GetLocationFromSplitLine(None, l))

\* ------------------------------------------------------------------------
\* The lookahead

\* The loop of getDistanceToNextThread from line i (1-based) on: the place
\* of the first G1 line met while isActive, 0 when the lines run out.
RECURSIVE NextThreadLine(_, _, _)
NextThreadLine(ls, i, isActive) ==
    IF i > Len(ls) THEN 0
    ELSE IF FirstWord(ls[i]) = "G1"
      THEN IF isActive THEN i ELSE NextThreadLine(ls, i + 1, isActive)
    ELSE IF FirstWord(ls[i]) = "M101" THEN NextThreadLine(ls, i + 1, TRUE)
    ELSE IF FirstWord(ls[i]) = "M103" THEN NextThreadLine(ls, i + 1, FALSE)
    ELSE NextThreadLine(ls, i + 1, isActive)

\* A variant of lines 314-321 without the branch of lines 314-315.
ClampToMaxOnly(retractDistance) ==
    IF retractDistance > repository.maxRetract THEN repository.maxRetract
    ELSE retractDistance

\* Lines 314-321: the retract distance held to minRetract and maxRetract.
ClampRetractDistance(retractDistance) ==
    IF retractDistance < repository.minRetract THEN repository.minRetract
    ELSE IF retractDistance > repository.maxRetract THEN repository.maxRetract
    ELSE retractDistance

\* Line 313: timeToNextThread ** 0.5 * (oozeRate / 60)
RetractDistance(timeToNextThread) ==
    Mul(Sqrt(timeToNextThread), TruncDiv(repository.oozeRate, 60))

\* Line 310: travel / feedRateMinute * 60
TimeToNextThread(travel, feedRateMinute) == Div(travel, feedRateMinute) * 60

\* Lines 307-309, 324: the travel from old to location, Z scaled.
Travel(old, location, zDistanceRatio) ==
    Hypot(XYAbs(VSub(location, old)),
          VSub(location, old).z * zDistanceRatio)

\* A variant of lines 303-306 that never finds another island.
NeverCrossesIsland(s, location) == [fault |-> FALSE, value |-> FALSE]

\* Lines 303-306: the location's smallest enclosing loop differs from
\* oldLocation's; fault when boundaryLayers[layerIndex] raises.
CrossesIsland(s, location) ==
    IF repository.retractWithinIsland THEN [fault |-> FALSE, value |-> FALSE]
    ELSE With(<< GetSmallestEnclosureIndex(s.boundaryLayers, s.layerIndex,
                                           DropAxis(location)),
                 GetSmallestEnclosureIndex(s.boundaryLayers, s.layerIndex,
                                           DropAxis(Val(s.oldLocation))) >>,
           LAMBDA ab : [fault |-> ab[1].fault \/ ab[2].fault,
                        value |-> ab[1].index # ab[2].index])

\* A variant of lines 310-324 that keeps the scan's isActive in the object.
StoreRetractDistanceActivating(s, travel) ==
    With(TimeToNextThread(travel, Val(s.feedRateMinute)),
      LAMBDA time :
        Ok([s EXCEPT !.timeToNextThread = Some(time),
                     !.autoRetractDistance =
                         ClampRetractDistance(RetractDistance(time)),
                     !.isExtruderActive = TRUE],
           Some(travel)))

\* Lines 310-324: the time and the retract distance stored, the travel
\* returned.
StoreRetractDistance(s, travel) ==
    With(TimeToNextThread(travel, Val(s.feedRateMinute)),
      LAMBDA time :
        Ok([s EXCEPT !.timeToNextThread = Some(time),
                     !.autoRetractDistance =
                         ClampRetractDistance(RetractDistance(time))],
           Some(travel)))

\* Lines 302-324: the first G1 line of the next thread, lines[j].
DistanceToLocation(s, location, island) ==
    IF island.fault THEN Raise(s)
    ELSE IF island.value THEN Ok(s, None)
    \* division by a feed rate that is None or zero
    ELSE IF s.feedRateMinute = None THEN Raise(s)
    ELSE IF Val(s.feedRateMinute) <= 0 THEN Raise(s)
    ELSE StoreRetractDistance(s, Travel(Val(s.oldLocation), location,
                                        s.zDistanceRatio))

\* The location of lines[j] taken from oldLocation.
DistanceToLine(s, j) ==
    IF j = 0 THEN Ok(s, None)
    ELSE With(GetLocationFromSplitLine(s.oldLocation, lines[j]),
           LAMBDA location :
             DistanceToLocation(s, location, CrossesIsland(s, location)))

\* getDistanceToNextThread(lineIndex): the travel in Some, or None; it stores
\* timeToNextThread and autoRetractDistance when it returns a travel.
GetDistanceToNextThread(s, index) ==
    IF HasNoLocation(s.oldLocation) THEN Ok(s, None)
    ELSE DistanceToLine(s, NextThreadLine(lines, index + 2, FALSE))

\* A variant of lines 380-386 with the tests of lines 382 and 384 exchanged.
RetractionRatioLowFirst(distanceToNextThread) ==
    IF distanceToNextThread = None THEN Scale
    ELSE IF Val(distanceToNextThread) <= minimumTravelForRetraction THEN 0
    ELSE IF Val(distanceToNextThread) >= doubleMinimumTravelForRetraction
      THEN Scale
    ELSE Div(Val(distanceToNextThread) - minimumTravelForRetraction,
             minimumTravelForRetraction)

\* Lines 380-386: the ratio for a distance to the next thread.
RetractionRatioOf(distanceToNextThread) ==
    IF distanceToNextThread = None THEN Scale
    ELSE IF Val(distanceToNextThread) >= doubleMinimumTravelForRetraction
      THEN Scale
    ELSE IF Val(distanceToNextThread) <= minimumTravelForRetraction THEN 0
    ELSE Div(Val(distanceToNextThread) - minimumTravelForRetraction,
             minimumTravelForRetraction)

\* getRetractionRatio(lineIndex)
GetRetractionRatio(s, index) ==
    ThenValue(GetDistanceToNextThread(s, index),
              LAMBDA s1, d : Ok(s1, RetractionRatioOf(d)))

\* ------------------------------------------------------------------------
\* parseLine

\* A variant of lines 471-474 whose fixed restart move leaves out the restart
\* extra distance.
RestartMoveWithoutExtra(s) ==
    IF repository.activateFixedRetract
      THEN AddLinearMoveExtrusionDistanceLine(s,
             Mul(repository.retractionDistance, s.retractionRatio))
    ELSE IF repository.activateAdaptiveRetract
      THEN AddLinearMoveExtrusionDistanceLine(s,
             Div(s.autoRetractDistance * 10, s.extrusionReduction))
    ELSE Ok(s, None)

\* Lines 471-474: the restart move of the M101 branch.
RestartMove(s) ==
    IF repository.activateFixedRetract
      THEN AddLinearMoveExtrusionDistanceLine(s,
             Mul(restartDistance, s.retractionRatio))
    ELSE IF repository.activateAdaptiveRetract
      THEN AddLinearMoveExtrusionDistanceLine(s,
             Div(s.autoRetractDistance * 10, s.extrusionReduction))
    ELSE Ok(s, None)

\* A variant of line 475 that does not test the format.
MustResetOverCeilingOnly(s) ==
    s.totalExtrusionDistance > repository.maximumEValueBeforeReset

\* Line 475: the total is over the ceiling, or the format is relative.
MustReset(s) ==
    \/ s.totalExtrusionDistance > repository.maximumEValueBeforeReset
    \/ repository.relativeExtrusionDistance

\* Lines 475-478: the reset of the total, and the extruder made active.
ResetAndActivate(s) ==
    IF MustReset(s)
      THEN Ok([s EXCEPT !.output = AddLine(@, Line("G92 E0")),
                        !.totalExtrusionDistance = 0,
                        !.isExtruderActive = TRUE], None)
      ELSE Ok([s EXCEPT !.isExtruderActive = TRUE], None)

\* The M101 branch, lines 469-478.
ParseM101(s) == Then(RestartMove(s), LAMBDA s1 : ResetAndActivate(s1))

\* Lines 484-485: the ratio stored, and the adaptive retraction move.
AdaptiveRetractionMove(s, ratio) ==
    AddLinearMoveExtrusionDistanceLine(
        [s EXCEPT !.retractionRatio = ratio],
        Div(-(s.autoRetractDistance * 10 - repository.afterOooze),
            s.extrusionReduction))

\* Variants of lines 480-485: one that writes the fixed retraction move
\* whatever the settings activate, one that takes the adaptive length before
\* the lookahead has run.
RetractionMoveUnconditional(s, index) ==
    AddLinearMoveExtrusionDistanceLine(s,
        Mul(-repository.retractionDistance, s.retractionRatio))
RetractionMoveBeforeLookahead(s, index) ==
    IF repository.activateFixedRetract
      THEN AddLinearMoveExtrusionDistanceLine(s,
             Mul(-repository.retractionDistance, s.retractionRatio))
    ELSE IF repository.activateAdaptiveRetract
      THEN ThenValue(GetRetractionRatio(s, index),
             LAMBDA s1, ratio :
               AddLinearMoveExtrusionDistanceLine(
                   [s1 EXCEPT !.retractionRatio = ratio],
                   Div(-(s.autoRetractDistance * 10 - repository.afterOooze),
                       s.extrusionReduction)))
    ELSE Ok(s, None)

\* A variant of lines 480-485 that tests the adaptive setting first.
RetractionMoveAdaptiveFirst(s, index) ==
    IF repository.activateAdaptiveRetract
      THEN ThenValue(GetRetractionRatio(s, index),
                     LAMBDA s1, ratio : AdaptiveRetractionMove(s1, ratio))
    ELSE IF repository.activateFixedRetract
      THEN AddLinearMoveExtrusionDistanceLine(s,
             Mul(-repository.retractionDistance, s.retractionRatio))
    ELSE Ok(s, None)

\* Lines 480-485: the retraction move of the M103 branch; line 481, which
\* would set the ratio in the fixed branch, is commented out in the source.
RetractionMove(s, index) ==
    IF repository.activateFixedRetract
      THEN AddLinearMoveExtrusionDistanceLine(s,
             Mul(-repository.retractionDistance, s.retractionRatio))
    ELSE IF repository.activateAdaptiveRetract
      THEN ThenValue(GetRetractionRatio(s, index),
                     LAMBDA s1, ratio : AdaptiveRetractionMove(s1, ratio))
    ELSE Ok(s, None)

\* The M103 branch, lines 479-486.
ParseM103(s, index) ==
    Then(RetractionMove(s, index),
         LAMBDA s1 : Ok([s1 EXCEPT !.isExtruderActive = FALSE], None))

\* The M108 branch, lines 488-490: float(splitLine[1][1 :]) raises when the
\* line has no second word.
ParseM108(s, l) ==
    IF l.v = None THEN Raise(s)
    ELSE Ok([s EXCEPT !.operatingFlowRate = l.v, !.flowRate = Val(l.v)], None)

\* A variant of lines 464-468 that declares absolute extrusion in either
\* format.
ParseLayerAlwaysAbsolute(s) ==
    Ok([s EXCEPT !.output = AddLine(@, Line("M82")),
                 !.layerIndex = @ + 1], None)

\* The layer branch, lines 464-468.
ParseLayer(s) ==
    Ok([s EXCEPT !.output =
               AddLine(@, IF ~repository.relativeExtrusionDistance
                            THEN Line("M82") ELSE Line("M83")),
           !.layerIndex = @ + 1], None)

\* Line 497: (math.pi * (filamentRadius ** 2)) * filamentPackingDensity
PackedFilamentXsection ==
    Mul(Mul(PiScaled, Mul(filamentRadius, filamentRadius)),
        repository.filamentPackingDensity)

\* Lines 456-459: the motion line dimensioned; value is the line to write.
DimensionMotion(s, line) ==
    IF line.word \in {"G2", "G3"} THEN GetDimensionedArcMovement(s, line)
    ELSE IF line.word = "G1" THEN GetDimensionedLinearMovement(s, line)
    ELSE Ok(s, line)

\* Lines 460-494: the branch of the first word.
ParseWord(s, line, index) ==
    IF line.word = "G90" THEN Ok([s EXCEPT !.absoluteDistanceMode = TRUE], None)
    ELSE IF line.word = "G91"
      THEN Ok([s EXCEPT !.absoluteDistanceMode = FALSE], None)
    ELSE IF line.word = "(<layer>" THEN ParseLayer(s)
    ELSE IF line.word = "M101" THEN ParseM101(s)
    ELSE IF line.word = "M103" THEN ParseM103(s, index)
    ELSE IF line.word = "M108" THEN ParseM108(s, line)
    ELSE Ok(s, None)

\* Lines 495-497: the line written, the filament cross-section stored.
WriteParsedLine(s, written) ==
    Ok([s EXCEPT !.output = AddLine(@, written),
                 !.filamentXsection = PackedFilamentXsection], None)

\* A variant of lines 452-497 without the return of lines 453-454.
ParseStrippedLineEchoing(s, line, index) ==
    IF line.word \in NoWordWords THEN WriteParsedLine(s, line)
    ELSE ThenValue(DimensionMotion(s, line),
           LAMBDA s1, written :
             Then(ParseWord(s1, line, index),
                  LAMBDA s2 : WriteParsedLine(s2, written)))

\* Lines 452-497 on the stripped line.
ParseStrippedLine(s, line, index) ==
    IF line.word \in NoWordWords THEN Ok(s, None)
    ELSE ThenValue(DimensionMotion(s, line),
           LAMBDA s1, written :
             Then(ParseWord(s1, line, index),
                  LAMBDA s2 : WriteParsedLine(s2, written)))

\* parseLine(lineIndex): the state it leaves, fault when it raises.
ParseLineOf(s, index) == ParseStrippedLine(s, Lstrip(lines[index + 1]), index)

\* ------------------------------------------------------------------------
\* parseInitialization

\* The annotations whose value parseInitialization reads with float().
ValueAnnotations ==
    {"(<layerThickness>", "(<maximumZDrillFeedRatePerSecond>",
     "(<maximumZTravelFeedRatePerSecond>", "(<operatingFeedRatePerSecond>",
     "(<operatingFlowRate>", "(<perimeterWidth>",
     "(<travelFeedRatePerSecond>", "(<nozzleDiameter>"}

\* Lines 427-445: the attribute an annotation line sets.
StoreAnnotation(s, w, v) ==
    IF w = "(<layerThickness>" THEN [s EXCEPT !.layerThickness = v]
    ELSE IF w \in {"(<maximumZDrillFeedRatePerSecond>",
                   "(<maximumZTravelFeedRatePerSecond>"}
      THEN [s EXCEPT !.maximumZTravelFeedRatePerSecond = Some(v)]
    ELSE IF w = "(<operatingFeedRatePerSecond>"
      THEN [s EXCEPT !.feedRateMinute = Some(60 * v)]
    ELSE IF w = "(<operatingFlowRate>"
      THEN [s EXCEPT !.operatingFlowRate = Some(v)]
    ELSE IF w = "(<perimeterWidth>" THEN [s EXCEPT !.perimeterWidth = v]
    ELSE IF w = "(<travelFeedRatePerSecond>"
      THEN [s EXCEPT !.travelFeedRatePerSecond = Some(v)]
    ELSE s

\* Line 446: ((layerThickness + perimeterWidth)/4) ** 2 * math.pi
InitialExtrusionXsection(s) ==
    SquareTimesPi(TruncDiv(s.layerThickness + s.perimeterWidth, 4))

\* distanceFeedRate.addTagBracketedProcedure('dimension')
ProcedureTag == LineV("(<procedureName>", 0)

\* Lines 446-448: the cross-section stored, the line echoed.
EchoInitializationLine(s, line) ==
    Ok([s EXCEPT !.extrusionXsection = Some(InitialExtrusionXsection(s)),
                 !.output = AddLine(@, line)],
       FALSE)

\* Lines 420-448 on one line with first word w.
ParseInitializationLine(s, line, w) ==
    IF w = "(</extruderInitialization>)"
      THEN Ok([s EXCEPT !.output = Write(@, ProcedureTag)], TRUE)
    ELSE IF w \in ValueAnnotations
      THEN IF line.v = None THEN Raise(s)
           ELSE EchoInitializationLine(StoreAnnotation(s, w, Val(line.v)), line)
    ELSE EchoInitializationLine(s, line)

\* One turn of the loop of parseInitialization, on line index (from 0):
\* value is TRUE when the turn returns from parseInitialization.
ParseInitializationOf(s, index) ==
    ParseInitializationLine([s EXCEPT !.lineIndex = index],
                            lines[index + 1], FirstWord(lines[index + 1]))

\* "not x" of a rate: None or zero.
NotRate(x) == x = None \/ x = Some(0)

\* Lines 236-237: parseBoundaries unless Retract Within Island is on.
BoundariesOf(s) ==
    IF ~repository.retractWithinIsland
      THEN ParseBoundariesOf(lines, s.lineIndex)
      ELSE [fault |-> FALSE, layers |-> << >>]

\* Lines 257-258: the division is taken only when both rates are None or
\* zero, and then it raises.
SetZDistanceRatio(s) ==
    IF /\ NotRate(s.maximumZTravelFeedRatePerSecond)
       /\ NotRate(s.travelFeedRatePerSecond)
      THEN Raise(s)
      ELSE Ok(s, None)

\* Lines 236-258 of getCraftedGcode.
StoreBoundaries(s, b) ==
    IF b.fault THEN Raise(s)
    ELSE SetZDistanceRatio([s EXCEPT !.boundaryLayers = b.layers])

SetupOf(s) == StoreBoundaries(s, BoundariesOf(s))

\* ------------------------------------------------------------------------
\* The pass: getCraftedGcode

\* One turn of the loop of parseInitialization.
ParseInitialization ==
    /\ pc = "parseInitialization"
    /\ lineIndex < Len(lines)
    /\ LET r == ParseInitializationOf(skein, lineIndex)
       IN IF r.fault
            THEN /\ pc' = "raised"
                 /\ UNCHANGED << skein, lineIndex >>
            ELSE /\ skein' = r.skein
                 /\ lineIndex' = IF r.value THEN lineIndex ELSE lineIndex + 1
                 /\ pc' = IF r.value \/ lineIndex + 1 = Len(lines)
                            THEN "parseBoundaries" ELSE pc
    /\ UNCHANGED << repository, lines >>

\* parseBoundaries when islands matter, then the set-up before the main loop,
\* which starts at self.lineIndex.
ParseBoundaries ==
    /\ pc = "parseBoundaries"
    /\ LET r == SetupOf(skein)
       IN IF r.fault
            THEN /\ pc' = "raised"
                 /\ UNCHANGED << skein, lineIndex >>
            ELSE /\ skein' = r.skein
                 /\ lineIndex' = skein.lineIndex
                 /\ pc' = "parseLine"
    /\ UNCHANGED << repository, lines >>

\* One turn of the main loop: parseLine(lineIndex).
ParseLine ==
    /\ pc = "parseLine"
    /\ lineIndex < Len(lines)
    /\ LET r == ParseLineOf(skein, lineIndex)
       IN IF r.fault
            THEN /\ pc' = "raised"
                 /\ UNCHANGED << skein, lineIndex >>
            ELSE /\ skein' = r.skein
                 /\ lineIndex' = lineIndex + 1
                 /\ pc' = pc
    /\ UNCHANGED << repository, lines >>

\* The main loop is over: getCraftedGcode returns the output.
Return ==
    /\ pc = "parseLine"
    /\ lineIndex >= Len(lines)
    /\ pc' = "returned"
    /\ UNCHANGED << repository, lines, skein, lineIndex >>

Next == ParseInitialization \/ ParseBoundaries \/ ParseLine \/ Return

\* The state when getCraftedGcode starts on the lines ls with settings repo.
Start(repo, ls) ==
    /\ repository = repo
    /\ lines = ls
    /\ skein = NewSkein
    /\ lineIndex = 0
    /\ pc = IF ls = << >> THEN "parseBoundaries" ELSE "parseInitialization"

\* ------------------------------------------------------------------------
\* Inputs

\* 'G1 X.. Y..', 'G1 X..', 'G1 X.. Y.. Z..', 'G2 X.. Y.. R..'
Move(x, y) == [Line("G1") EXCEPT !.x = Some(x), !.y = Some(y)]
MoveX(x) == [Line("G1") EXCEPT !.x = Some(x)]
MoveZ(x, y, z) == [Move(x, y) EXCEPT !.z = Some(z)]
Arc(x, y, r) == [Line("G2") EXCEPT !.x = Some(x), !.y = Some(y), !.r = Some(r)]

\* The initialization lines a skeinforge chain writes before dimension.
FullHeader ==
    << LineV("(<layerThickness>", 800),
       LineV("(<perimeterWidth>", 1200),
       LineV("(<travelFeedRatePerSecond>", 16000),
       LineV("(<operatingFeedRatePerSecond>", 16000),
       LineV("(<operatingFlowRate>", 1000),
       Line("(</extruderInitialization>)") >>

\* All sequences of n lines of the alphabet.
Tails(alphabet, n) == [1..n -> alphabet]

\* The pass starts on some settings and some header, prelude and tail.
InitWith(repositories, headers, preludes, tails) ==
    \E repo \in repositories, h \in headers, p \in preludes, t \in tails :
        Start(repo, h \o p \o t)

\* The number of lines of the inputs of Spec after their prelude.
MaxLines == 4

\* Settings of Spec: fixed retraction in absolute and in relative format with
\* a low reset ceiling, no retraction without the filament diameter, and
\* adaptive retraction in relative format.
FixedAbsolute ==
    [DefaultRepository EXCEPT !.retractionDistance = 1000,
                              !.restartExtraDistance = 500,
                              !.retractWithinIsland = TRUE,
                              !.maximumEValueBeforeReset = 1000]
FixedRelative == [FixedAbsolute EXCEPT !.relativeExtrusionDistance = TRUE]
NoRetract ==
    [FixedAbsolute EXCEPT !.activateFixedRetract = FALSE,
                          !.useFilamentDiameter = FALSE]
AdaptiveRelative ==
    [FixedRelative EXCEPT !.activateFixedRetract = FALSE,
                          !.activateAdaptiveRetract = TRUE]

MotionAlphabet ==
    {MoveX(4), Move(1, 4), Arc(4, 0, 1), Line("G91"), Line("M101"),
     Line("M103")}

\* The flow rate of M108 is an extruder speed, never negative.
MotionPreludes ==
    {<< LineV("M108", 1000) >>, << LineV("M108", 1000), Move(1, 0) >>}

Init ==
    InitWith({FixedAbsolute, FixedRelative, NoRetract, AdaptiveRelative},
             {FullHeader},
             MotionPreludes, Tails(MotionAlphabet, MaxLines))

Spec == Init /\ [][Next]_vars

\* Adaptive retraction: the settings differ in the minimum travel, in the
\* retract limits and in the format; the moves give lookahead travels of 0,
\* 1, 3, 4 and 5 mm.
MaxAdaptiveLines == 4

Adaptive ==
    [DefaultRepository EXCEPT !.activateFixedRetract = FALSE,
                              !.activateAdaptiveRetract = TRUE,
                              !.retractWithinIsland = TRUE,
                              !.minimumTravelForRetraction = 2000]
AdaptiveNoMinimumTravel == [Adaptive EXCEPT !.minimumTravelForRetraction = 0]
AdaptiveLowLimit == [Adaptive EXCEPT !.maxRetract = 500]

AdaptiveAlphabet ==
    {MoveX(2), MoveX(4), Move(1, 4), Line("M101"), Line("M103")}

\* Fixed and adaptive retraction both activated.
FixedAndAdaptive ==
    [Adaptive EXCEPT !.activateFixedRetract = TRUE,
                     !.retractionDistance = 1000,
                     !.restartExtraDistance = 500]

InitAdaptive ==
    InitWith({Adaptive, AdaptiveNoMinimumTravel, AdaptiveLowLimit,
              AdaptiveRelative, FixedAndAdaptive},
             {FullHeader}, MotionPreludes,
             Tails(AdaptiveAlphabet, MaxAdaptiveLines))

SpecAdaptive == InitAdaptive /\ [][Next]_vars

\* Islands: adaptive retraction with Retract Within Island off, on a layer
\* whose one boundary loop holds (1, 0) and (2, 0) but not (4, 0), and on
\* lines with no layer at all.
MaxIslandLines == 4

BoundaryPoint(x, y) ==
    [Line("(<boundaryPoint>") EXCEPT !.x = Some(x), !.y = Some(y)]

AdaptiveIslands == [Adaptive EXCEPT !.retractWithinIsland = FALSE]

IslandPrelude ==
    << LineV("M108", 1000), LineV("(<layer>", 0), BoundaryPoint(0, -1),
       BoundaryPoint(4, -1), BoundaryPoint(0, 3),
       Line("(</boundaryPerimeter>)"), Move(1, 0) >>

IslandAlphabet == {MoveX(2), MoveX(4), Line("M101"), Line("M103")}

InitIslands ==
    InitWith({AdaptiveIslands}, {FullHeader},
             {IslandPrelude, << LineV("M108", 1000), Move(1, 0) >>},
             Tails(IslandAlphabet, MaxIslandLines))

SpecIslands == InitIslands /\ [][Next]_vars

\* Text: lines with no word, lines with leading white space, with and
\* without an M108 line before them, and headers that lack the feed rates,
\* the layer thickness and perimeter width, or the line that ends the
\* initialization.
MaxTextLines == 4

BareHeader == << Line("(</extruderInitialization>)") >>

NoGeometryHeader ==
    << LineV("(<travelFeedRatePerSecond>", 16000),
       LineV("(<operatingFeedRatePerSecond>", 16000),
       Line("(</extruderInitialization>)") >>

TextAlphabet ==
    {Line(""), Line(";"), Indented(Line("")), Indented(MoveX(4)), Move(1, 4),
     Line("M101")}

\* The header without the line that ends the initialization.
OpenHeader == SubSeq(FullHeader, 1, Len(FullHeader) - 1)

InitText ==
    InitWith({FixedAbsolute},
             {FullHeader, BareHeader, NoGeometryHeader, OpenHeader},
             {<< LineV("M108", 1000) >>, << >>},
             Tails(TextAlphabet, MaxTextLines))

SpecText == InitText /\ [][Next]_vars

\* Modes: G90 and G91 lines, moves with and without a Z word, layer lines
\* with and without leading white space, in absolute and relative format, on
\* a header that gives the travel feed rate alone and on one that gives the
\* maximum Z travel feed rate as well.
MaxModeLines == 4

ZHeader ==
    << LineV("(<maximumZTravelFeedRatePerSecond>", 8000) >> \o FullHeader

Layer == LineV("(<layer>", 0)

ModeAlphabet ==
    {Line("G90"), Line("G91"), MoveX(4), MoveZ(1, 4, 2), Layer,
     Indented(Layer)}

ModePreludes ==
    {<< LineV("M108", 1000), Line("M101") >>,
     << LineV("M108", 1000), Move(1, 0), Line("M101") >>}

InitModes ==
    InitWith({FixedAbsolute, FixedRelative}, {FullHeader, ZHeader},
             ModePreludes, Tails(ModeAlphabet, MaxModeLines))

SpecModes == InitModes /\ [][Next]_vars

\* ------------------------------------------------------------------------
\* Properties of the main loop

\* The main loop is about to parse lines[lineIndex], CurrentLine stripped.
ParsingLine == pc = "parseLine" /\ lineIndex < Len(lines)
CurrentLine == Lstrip(lines[lineIndex + 1])

\* The step from the current state parsed CurrentLine through without raising.
Parsed == ParsingLine /\ pc' = "parseLine"

IsMotionLine(l) == l.word \in {"G1", "G2", "G3"}
IsMarker(l) == l.word \in {"M101", "M103"}

\* A motion line as written: a line with an axis word.
IsMotionEntry(l) ==
    IsMotionLine(l) /\ (l.x # None \/ l.y # None \/ l.z # None)

\* The distance the pass computes for motion line l read in state s: None
\* when it computes none (an arc with no location or no radius, a relative
\* move with no location).
TravelDistance(s, l) ==
    IF l.word = "G1"
      THEN IF s.absoluteDistanceMode
             THEN IF s.oldLocation = None THEN Some(0)
                  ELSE Some(VAbs(VSub(GetLocationFromSplitLine(s.oldLocation, l),
                                      Val(s.oldLocation))))
           ELSE IF s.oldLocation = None THEN None
           ELSE Some(VAbs(GetLocationFromSplitLine(None, l)))
    ELSE IF s.oldLocation = None \/ l.r = None THEN None
    ELSE Some(GetArcDistance(GetLocationFromSplitLine(s.oldLocation, l), l).value)

\* The feed length of a move of the given distance with the flow rate and the
\* geometry of state s.
FeedLength(s, distance) ==
    ExtrusionDistance(s.flowRate, ExtrusionXsection(s), distance,
                      ExtrusionReduction(FilamentXsection, ExtrusionXsection(s)))

\* The length of the one move written when line l is parsed from state s to
\* state s2, None when the line has no feed length: of a motion line, its
\* feed length; of a marker, the signed length of its retraction or restart.
OwnLength(s, s2, l) ==
    IF IsMotionLine(l)
      THEN IF s.isExtruderActive /\ TravelDistance(s, l) # None
                /\ TravelDistance(s, l) # Some(0)
             THEN Some(FeedLength(s, Val(TravelDistance(s, l))))
             ELSE None
    ELSE IF ~IsMarker(l) \/ repository.extruderRetractionSpeed = 0 THEN None
    ELSE IF repository.activateFixedRetract
      THEN IF l.word = "M101"
             THEN Some(Mul(restartDistance, s.retractionRatio))
             ELSE Some(Mul(-repository.retractionDistance, s.retractionRatio))
    ELSE IF repository.activateAdaptiveRetract
      THEN IF l.word = "M101"
             THEN Some(Div(s.autoRetractDistance * 10, s.extrusionReduction))
             ELSE Some(Div(-(s2.autoRetractDistance * 10
                             - repository.afterOooze), s.extrusionReduction))
    ELSE None

\* The E words of the lines written from state s to state s2, in order.
HasE(l) == l.e # None
EWords(entries) == [k \in 1..Len(entries) |-> entries[k].e]
NewEntries(s, s2) == SubSeq(s2.output, Len(s.output) + 1, Len(s2.output))
NewEWords(s, s2) == EWords(SelectSeq(NewEntries(s, s2), HasE))

\* The last line written.
LastEntry(s) == s.output[Len(s.output)]

\* The line parsed last by the main loop, when there is one.
HasParsed == pc = "parseLine" /\ lineIndex > skein.lineIndex
ParsedLine == Lstrip(lines[lineIndex])

NoMarkerBetween(out, i, j) == \A k \in (i + 1)..(j - 1) : ~IsMarker(out[k])

\* The E words of motion lines written with no marker between them do not
\* decrease.
MonotoneBetweenMarkers(out) ==
    \A i \in 1..Len(out) : \A j \in (i + 1)..Len(out) :
        (/\ IsMotionEntry(out[i]) /\ HasE(out[i])
         /\ IsMotionEntry(out[j]) /\ HasE(out[j])
         /\ NoMarkerBetween(out, i, j))
        => Val(out[j].e) >= Val(out[i].e)

\* C6: in absolute format the total written on a motion line is at least the
\* total written on the motion line before it when no M101 or M103 lies
\* between them, and the first E word written while the total is zero, as it
\* is after a reset, is the length of that move alone.
C6_AbsoluteTotalsGrow ==
    /\ [](~repository.relativeExtrusionDistance
          => MonotoneBetweenMarkers(skein.output))
    /\ [][(/\ Parsed
           /\ ~repository.relativeExtrusionDistance
           /\ skein.totalExtrusionDistance = 0
           /\ OwnLength(skein, skein', CurrentLine) # None)
          => NewEWords(skein, skein')
               = << OwnLength(skein, skein', CurrentLine) >>]_vars

\* After a reset two motion lines were written with growing totals, the first
\* being the length of its move alone.
C6_GrowsAfterReset ==
    /\ ~repository.relativeExtrusionDistance
    /\ \E i \in 1..Len(skein.output) :
         /\ i + 3 <= Len(skein.output)
         /\ skein.output[i].word = "G92 E0"
         /\ skein.output[i + 1].word = "M101"
         /\ IsMotionEntry(skein.output[i + 2])
         /\ IsMotionEntry(skein.output[i + 3])
         /\ skein.output[i + 2].e # None
         /\ skein.output[i + 3].e # None
         /\ Val(skein.output[i + 2].e) > 0
         /\ Val(skein.output[i + 3].e) > Val(skein.output[i + 2].e)

\* C7: in relative format every E word written, on a motion line and on a
\* retraction or restart move, is the length of that move alone, whatever was
\* written before, and the total feed length is zero in every state.
C7_RelativeLengthsAlone ==
    /\ [](repository.relativeExtrusionDistance
          => skein.totalExtrusionDistance = 0)
    /\ [][(Parsed /\ repository.relativeExtrusionDistance)
          => NewEWords(skein, skein')
               = IF OwnLength(skein, skein', CurrentLine) = None THEN << >>
                 ELSE << OwnLength(skein, skein', CurrentLine) >>]_vars

\* In relative format two moves of the same distance were written one after
\* the other with the same E word, after a restart move.
C7_EqualMovesEqualWords ==
    /\ repository.relativeExtrusionDistance
    /\ skein.totalExtrusionDistance = 0
    /\ \E i \in 1..Len(skein.output) :
         /\ i + 1 <= Len(skein.output)
         /\ IsMotionEntry(skein.output[i])
         /\ IsMotionEntry(skein.output[i + 1])
         /\ skein.output[i].e # None
         /\ skein.output[i + 1].e = skein.output[i].e
         /\ Val(skein.output[i].e) > 0
         /\ \E k \in 1..(i - 1) : skein.output[k] = MoveE(restartDistance)

\* C9: a linear move parsed in relative mode with no location stored takes
\* the origin as the location, applies the move to it, and the pass goes on.
C9_OriginAssumed ==
    [][(/\ ParsingLine
        /\ CurrentLine.word = "G1"
        /\ ~skein.absoluteDistanceMode
        /\ skein.oldLocation = None)
       => /\ pc' = "parseLine"
          /\ skein'.oldLocation
               = Some(GetLocationFromSplitLine(None, CurrentLine))]_vars

\* The travel along the linear moves from line i (1-based) up to the next
\* M101, from location loc, in absolute mode: None when the lines run out or
\* hold another kind of line first.
RECURSIVE TravelToActivation(_, _, _)
TravelToActivation(ls, i, loc) ==
    IF i > Len(ls) THEN None
    ELSE IF ls[i].word = "M101" THEN Some(0)
    ELSE IF ls[i].word # "G1" THEN None
    ELSE IF TravelToActivation(ls, i + 1,
                               GetLocationFromSplitLine(Some(loc), ls[i])) = None
      THEN None
    ELSE Some(VAbs(VSub(GetLocationFromSplitLine(Some(loc), ls[i]), loc))
              + Val(TravelToActivation(ls, i + 1,
                        GetLocationFromSplitLine(Some(loc), ls[i]))))

\* Only the fixed, or only the adaptive, retraction moves are written.
FixedRetraction ==
    repository.activateFixedRetract /\ repository.extruderRetractionSpeed # 0
AdaptiveRetraction ==
    /\ ~repository.activateFixedRetract
    /\ repository.activateAdaptiveRetract
    /\ repository.extruderRetractionSpeed # 0

\* C2: with fixed retraction, a retraction speed and a minimum travel above
\* zero, an M103 followed by the next M101 after a travel of at most the
\* minimum travel takes the retraction ratio 0, and its retraction move has
\* length zero.
C2_ShortTravelNotRetracted ==
    [][(/\ Parsed
        /\ CurrentLine.word = "M103"
        /\ FixedRetraction
        /\ minimumTravelForRetraction > 0
        /\ skein.absoluteDistanceMode
        /\ skein.oldLocation # None
        /\ TravelToActivation(lines, lineIndex + 2, Val(skein.oldLocation))
             # None
        /\ Val(TravelToActivation(lines, lineIndex + 2, Val(skein.oldLocation)))
             <= minimumTravelForRetraction)
       => /\ skein'.retractionRatio = 0
          /\ skein'.totalExtrusionDistance = skein.totalExtrusionDistance]_vars

\* The ratio r is what the ratio function gives for the lookahead distance d
\* and the minimum travel m, the tests read in the order of the code: the
\* quotient is truncated to the fixed-point unit.
RatioInOrder(d, m, r) ==
    /\ 0 <= r /\ r <= Scale
    /\ IF d = None THEN r = Scale
       ELSE IF Val(d) >= 2 * m THEN r = Scale
       ELSE IF Val(d) <= m THEN r = 0
       ELSE /\ r * m <= (Val(d) - m) * Scale
            /\ (Val(d) - m) * Scale < (r + 1) * m

\* The same with each case read on its own.
RatioByCase(d, m, r) ==
    /\ 0 <= r /\ r <= Scale
    /\ d = None => r = Scale
    /\ (d # None /\ Val(d) >= 2 * m) => r = Scale
    /\ (d # None /\ Val(d) <= m) => r = 0
    /\ (d # None /\ m < Val(d) /\ Val(d) < 2 * m)
         => /\ r * m <= (Val(d) - m) * Scale
            /\ (Val(d) - m) * Scale < (r + 1) * m

\* An M103 line is parsed through with adaptive retraction, which takes the
\* ratio of the lookahead from this line.
AdaptiveDeactivate ==
    /\ Parsed
    /\ CurrentLine.word = "M103"
    /\ ~repository.activateFixedRetract
    /\ repository.activateAdaptiveRetract

\* C3 as stated: the ratio is 1 for d >= 2m, 0 for d <= m, (d - m)/m between
\* them, 1 for no distance, and within [0, 1].
C3_RatioByCase ==
    [][AdaptiveDeactivate
       => RatioByCase(GetDistanceToNextThread(skein, lineIndex).value,
                      minimumTravelForRetraction,
                      skein'.retractionRatio)]_vars

\* C3: the ratio is 1 for no distance and for d >= 2m, else 0 for d <= m,
\* else (d - m)/m, and within [0, 1]; for d = 0 and m = 0 it is 1.
C3_RatioInOrder ==
    [][AdaptiveDeactivate
       => RatioInOrder(GetDistanceToNextThread(skein, lineIndex).value,
                       minimumTravelForRetraction,
                       skein'.retractionRatio)]_vars

\* An M103 was parsed whose lookahead gave a ratio strictly between 0 and 1.
C3_Interpolated ==
    /\ HasParsed
    /\ ParsedLine.word = "M103"
    /\ skein.retractionRatio > 0
    /\ skein.retractionRatio < Scale

\* A marker line is parsed through and writes an adaptive move.
AdaptiveMove == Parsed /\ IsMarker(CurrentLine) /\ AdaptiveRetraction

\* The length a is the retract distance raw held to the limits as the code
\* holds it: to minRetract from below first, else to maxRetract from above.
HeldToLimits(raw, a) ==
    /\ IF raw < repository.minRetract THEN a = repository.minRetract
       ELSE IF raw > repository.maxRetract THEN a = repository.maxRetract
       ELSE a = raw
    /\ repository.minRetract <= repository.maxRetract
         => (repository.minRetract <= a /\ a <= repository.maxRetract)

\* C4 as stated: the adaptive length of every adaptive retraction and restart
\* move lies within [minRetract, maxRetract].
C4_AlwaysWithinLimits ==
    [][AdaptiveMove
       => /\ repository.minRetract <= skein'.autoRetractDistance
          /\ skein'.autoRetractDistance <= repository.maxRetract]_vars

\* C4: the adaptive length of an adaptive retraction or restart move is 0
\* until a lookahead has returned a distance, and from then on the retract
\* distance of the last such lookahead held to the limits, which lies within
\* [minRetract, maxRetract] when minRetract <= maxRetract.
C4_WithinLimitsOnceMeasured ==
    [][AdaptiveMove
       => IF skein'.timeToNextThread = None
            THEN skein'.autoRetractDistance = 0
            ELSE HeldToLimits(RetractDistance(Val(skein'.timeToNextThread)),
                              skein'.autoRetractDistance)]_vars

\* A restart move was written at an M101 with the adaptive length raised to
\* minRetract by the lookahead of the M103 before it.
C4_RaisedToMinimum ==
    /\ HasParsed
    /\ ParsedLine.word = "M101"
    /\ AdaptiveRetraction
    /\ skein.timeToNextThread # None
    /\ RetractDistance(Val(skein.timeToNextThread)) < repository.minRetract
    /\ skein.autoRetractDistance = repository.minRetract
    /\ repository.minRetract <= repository.maxRetract

\* Line j (1-based) is the first linear move of the next thread after line
\* i0: a G1 line after an M101 with no M103 between them, and the first such.
StartsThread(ls, i0, j) ==
    /\ FirstWord(ls[j]) = "G1"
    /\ \E k \in i0..(j - 1) :
         /\ FirstWord(ls[k]) = "M101"
         /\ \A k2 \in (k + 1)..(j - 1) : FirstWord(ls[k2]) # "M103"
IsNextThread(ls, i0, j) ==
    /\ StartsThread(ls, i0, j)
    /\ \A j2 \in i0..(j - 1) : ~StartsThread(ls, i0, j2)

\* The smallest loop of the current layer that encloses the location.
EnclosureIndex(s, location) ==
    GetSmallestEnclosureIndex(s.boundaryLayers, s.layerIndex,
                              DropAxis(location)).index

\* The target of line j taken from the stored location lies in the island of
\* the stored location.
SameIsland(s, j) ==
    EnclosureIndex(s, GetLocationFromSplitLine(s.oldLocation, lines[j]))
      = EnclosureIndex(s, Val(s.oldLocation))

\* The locations of the linear moves from line i (1-based) up to the next
\* M101, from location loc, all lie in the island of the stored location.
RECURSIVE TravelStaysInIsland(_, _, _)
TravelStaysInIsland(s, i, loc) ==
    IF i > Len(lines) THEN TRUE
    ELSE IF FirstWord(lines[i]) = "M101" THEN TRUE
    ELSE IF FirstWord(lines[i]) # "G1"
      THEN TravelStaysInIsland(s, i + 1, loc)
    ELSE /\ EnclosureIndex(s, GetLocationFromSplitLine(Some(loc), lines[i]))
              = EnclosureIndex(s, Val(s.oldLocation))
         /\ TravelStaysInIsland(s, i + 1,
                GetLocationFromSplitLine(Some(loc), lines[i]))

\* An M103 line is parsed through with adaptive retraction restricted to
\* islands, from a stored location.
IslandDeactivate ==
    /\ AdaptiveDeactivate
    /\ ~repository.retractWithinIsland
    /\ skein.oldLocation # None

C8_NeverAborts == pc # "raised"

\* The last new line written is line l, with or without an E word.
WrittenLast(s, s2, l) ==
    /\ Len(s2.output) > Len(s.output)
    /\ SubSeq(s2.output, 1, Len(s.output)) = s.output
    /\ [LastEntry(s2) EXCEPT !.e = None] = l

\* C10 as stated: every line parsed by the main loop is written, a line with
\* no word as it was read.
C10_EveryLineWritten ==
    [][Parsed
       => IF CurrentLine.word \in NoWordWords
            THEN WrittenLast(skein, skein', lines[lineIndex + 1])
            ELSE \/ WrittenLast(skein, skein', lines[lineIndex + 1])
                 \/ WrittenLast(skein, skein', CurrentLine)]_vars

\* C10: a line with a word is written last of the lines of its step,
\* without its leading white space; a line with no word (empty, white space,
\* only a comment) is not written and changes nothing.
C10_LinesWithWordsWritten ==
    [][Parsed
       => /\ lineIndex' = lineIndex + 1
          /\ IF CurrentLine.word \in NoWordWords
               THEN skein' = skein
               ELSE WrittenLast(skein, skein', CurrentLine)]_vars

\* A line that is only a comment was parsed and none was written, and an
\* indented move was written without its indent.
C10_CommentDropped ==
    /\ HasParsed
    /\ lines[lineIndex].word = ";"
    /\ \A k \in 1..Len(skein.output) :
         skein.output[k].word # ";" /\ ~skein.output[k].lead
    /\ \E k \in 1..lineIndex : lines[k].word = "G1" /\ lines[k].lead

\* Neither fixed nor adaptive retraction is activated.
NoRetraction ==
    ~repository.activateFixedRetract /\ ~repository.activateAdaptiveRetract

\* The words of the lines written from state s to state s2.
NewWords(s, s2) ==
    [k \in 1..Len(NewEntries(s, s2)) |-> NewEntries(s, s2)[k].word]

\* No 'G92 E0' line is written from state s to state s2.
NoResetWritten(s, s2) ==
    \A k \in 1..Len(NewEntries(s, s2)) : NewEntries(s, s2)[k].word # "G92 E0"

\* C11: with neither retraction activated, an M101 or M103 line is parsed
\* through, writes no line with an E word, and leaves the total feed length
\* as it was unless it is an M101 that resets it to zero.
C11_NoRetractionMoves ==
    [][(ParsingLine /\ IsMarker(CurrentLine) /\ NoRetraction)
       => /\ pc' = "parseLine"
          /\ IF /\ CurrentLine.word = "M101"
                /\ \/ skein.totalExtrusionDistance
                        > repository.maximumEValueBeforeReset
                   \/ repository.relativeExtrusionDistance
               THEN /\ NewEntries(skein, skein')
                         = << Line("G92 E0"), CurrentLine >>
                    /\ skein'.totalExtrusionDistance = 0
               ELSE /\ NewEntries(skein, skein') = << CurrentLine >>
                    /\ skein'.totalExtrusionDistance
                         = skein.totalExtrusionDistance]_vars

\* With neither retraction activated an M103 and, after an extruding move, an
\* M101 that resets the total were parsed, and every E word written is on a
\* motion line.
C11_MarkersPassedThrough ==
    /\ NoRetraction
    /\ HasParsed
    /\ ParsedLine.word = "M101"
    /\ skein.totalExtrusionDistance = 0
    /\ \E k \in 1..Len(skein.output) : skein.output[k].word = "M103"
    /\ \E k \in 1..Len(skein.output) : skein.output[k].word = "G92 E0"
    /\ \E k \in 1..Len(skein.output) : HasE(skein.output[k])
    /\ \A k \in 1..Len(skein.output) :
         HasE(skein.output[k]) => IsMotionEntry(skein.output[k])

\* The total after the restart move of an M101 line parsed from state s to
\* state s2, before the reset is considered.
RestartedTotal(s, s2, l) ==
    IF repository.relativeExtrusionDistance \/ OwnLength(s, s2, l) = None
      THEN s.totalExtrusionDistance
      ELSE s.totalExtrusionDistance + Val(OwnLength(s, s2, l))

\* C12: an M101 line writes 'G92 E0' right before itself and sets the total
\* to zero exactly when the total after its restart move is over the ceiling
\* or the format is relative, and else leaves the total after the restart
\* move; no other line writes 'G92 E0', and the total after it is the total
\* before it plus the length of the move it writes, if any.
C12_ResetOnlyAtActivate ==
    /\ [][(Parsed /\ CurrentLine.word = "M101")
          => IF \/ RestartedTotal(skein, skein', CurrentLine)
                     > repository.maximumEValueBeforeReset
                \/ repository.relativeExtrusionDistance
               THEN /\ skein'.totalExtrusionDistance = 0
                    /\ Len(NewEntries(skein, skein')) >= 2
                    /\ SubSeq(NewWords(skein, skein'),
                              Len(NewEntries(skein, skein')) - 1,
                              Len(NewEntries(skein, skein')))
                         = << "G92 E0", "M101" >>
               ELSE /\ skein'.totalExtrusionDistance
                         = RestartedTotal(skein, skein', CurrentLine)
                    /\ NoResetWritten(skein, skein')]_vars
    /\ [][(Parsed /\ CurrentLine.word # "M101")
          => /\ NoResetWritten(skein, skein')
             /\ skein'.totalExtrusionDistance
                  = RestartedTotal(skein, skein', CurrentLine)]_vars

\* In absolute format an M101 was parsed that reset the total, after an M101
\* that did not.
C12_ResetAfterCeiling ==
    /\ ~repository.relativeExtrusionDistance
    /\ HasParsed
    /\ ParsedLine.word = "M101"
    /\ skein.totalExtrusionDistance = 0
    /\ Len(skein.output) >= 2
    /\ skein.output[Len(skein.output) - 1].word = "G92 E0"
    /\ \E k \in 2..(Len(skein.output) - 2) :
         /\ skein.output[k].word = "M101"
         /\ skein.output[k - 1].word # "G92 E0"

\* The main loop is running or has returned.
InMainPhase == pc \in {"parseLine", "returned"}

\* The number of layer lines the main loop has parsed.
LayersParsed ==
    Cardinality({k \in (skein.lineIndex + 1)..lineIndex :
                    lines[k].word = "(<layer>"})

\* The mode declaration of the format.
ModeDeclaration ==
    IF repository.relativeExtrusionDistance THEN Line("M83") ELSE Line("M82")

\* C13: a layer line of the main loop writes the mode declaration of the
\* format (M82 absolute, M83 relative) and then itself, and adds one to the
\* layer index; no other line writes a mode declaration or changes the layer
\* index; after n layer lines the layer index is n - 1.
C13_ModeDeclaredPerLayer ==
    /\ [][(ParsingLine /\ CurrentLine.word = "(<layer>")
          => /\ pc' = "parseLine"
             /\ NewEntries(skein, skein') = << ModeDeclaration, CurrentLine >>
             /\ skein'.layerIndex = skein.layerIndex + 1]_vars
    /\ [][(Parsed /\ CurrentLine.word # "(<layer>")
          => /\ skein'.layerIndex = skein.layerIndex
             /\ \A k \in 1..Len(NewEntries(skein, skein')) :
                  NewEntries(skein, skein')[k].word \notin {"M82", "M83"}]_vars
    /\ [](InMainPhase => skein.layerIndex = LayersParsed - 1)
    /\ [](pc \in {"parseInitialization", "parseBoundaries"}
            => skein.layerIndex = -1)

\* In relative format two layer lines were parsed, each written right after
\* an M83 line, and the layer index is 1.
C13_SecondLayerDeclared ==
    /\ repository.relativeExtrusionDistance
    /\ HasParsed
    /\ ParsedLine.word = "(<layer>"
    /\ skein.layerIndex = 1
    /\ Len(skein.output) >= 4
    /\ skein.output[Len(skein.output) - 1] = Line("M83")
    /\ LastEntry(skein) = Layer
    /\ \E k \in 2..(Len(skein.output) - 2) :
         /\ skein.output[k] = Layer
         /\ skein.output[k - 1] = Line("M83")

\* The cross-sections, the reduction and the feed length as the formula
\* gives them: pi * ((layerThickness + perimeterWidth) / 4) ^ 2,
\* pi * (filamentDiameter / 2) ^ 2, their quotient when the filament diameter
\* is considered and else 1, and (f * 10 * cross-section * d) / reduction.
FormulaCrossSection(s) ==
    Mul(PiScaled,
        Mul(TruncDiv(s.layerThickness + s.perimeterWidth, 4),
            TruncDiv(s.layerThickness + s.perimeterWidth, 4)))
FormulaFilamentCrossSection ==
    Mul(PiScaled,
        Mul(TruncDiv(repository.filamentDiameter, 2),
            TruncDiv(repository.filamentDiameter, 2)))
FormulaReduction(s) ==
    IF repository.useFilamentDiameter
      THEN Div(FormulaFilamentCrossSection, FormulaCrossSection(s))
      ELSE Scale
FormulaFeedLength(s, d) ==
    Div(Mul(Mul(s.flowRate * 10, FormulaCrossSection(s)), d),
        FormulaReduction(s))

\* A motion line is parsed through with the extruder active and a travel
\* distance above zero.
ExtrudingMove ==
    /\ Parsed
    /\ IsMotionLine(CurrentLine)
    /\ skein.isExtruderActive
    /\ TravelDistance(skein, CurrentLine) # None
    /\ Val(TravelDistance(skein, CurrentLine)) > 0

\* C14: the feed length of a motion line parsed with the extruder active and
\* a travel distance d > 0 is (f * 10 * cross-section * d) / reduction, never
\* negative: it is the E word written in relative format and the growth of
\* the total, which is the E word written, in absolute format.
C14_FeedLengthFormula ==
    [][ExtrudingMove
       => /\ FormulaFeedLength(skein, Val(TravelDistance(skein, CurrentLine)))
               >= 0
          /\ skein'.extrusionReduction = FormulaReduction(skein)
          /\ NewEntries(skein, skein')
               = << [CurrentLine EXCEPT !.e =
                       Some((IF repository.relativeExtrusionDistance THEN 0
                             ELSE skein.totalExtrusionDistance)
                            + FormulaFeedLength(skein,
                                Val(TravelDistance(skein, CurrentLine))))] >>
          /\ skein'.totalExtrusionDistance
               = IF repository.relativeExtrusionDistance
                   THEN skein.totalExtrusionDistance
                   ELSE skein.totalExtrusionDistance
                        + FormulaFeedLength(skein,
                            Val(TravelDistance(skein, CurrentLine)))]_vars

\* With the filament diameter considered, a move of 3 mm was parsed with the
\* extruder active and written with a feed length above zero, the reduction
\* being above 1.
C14_ReducedFeedLengthWritten ==
    /\ repository.useFilamentDiameter
    /\ repository.relativeExtrusionDistance
    /\ HasParsed
    /\ ParsedLine = MoveX(4)
    /\ skein.isExtruderActive
    /\ skein.oldLocation = Some(Vector3(4, 0, 0))
    /\ skein.extrusionReduction > Scale
    /\ LastEntry(skein).word = "G1"
    /\ LastEntry(skein).e = Some(FormulaFeedLength(skein, 3 * Scale))
    /\ FormulaFeedLength(skein, 3 * Scale) > 0

\* The signed length of the fixed move of marker line l read in state s:
\* -(retractionDistance * ratio) at M103,
\* (retractionDistance + restartExtraDistance) * ratio at M101.
FixedMoveLength(s, l) ==
    IF l.word = "M103"
      THEN -Mul(repository.retractionDistance, s.retractionRatio)
      ELSE Mul(repository.retractionDistance + repository.restartExtraDistance,
               s.retractionRatio)

\* The E word of a move of the given signed length written in state s: the
\* length in relative format, the total with the length added in absolute.
AccountedWord(s, length) ==
    IF repository.relativeExtrusionDistance THEN length
    ELSE s.totalExtrusionDistance + length

\* C15: with fixed retraction and a retraction speed, an M103 or M101 line
\* parsed through writes one move, between a line that sets the retraction
\* feed rate and a line that restores the feed rate, and then itself (an
\* M101 that resets the total writes 'G92 E0' before itself); the E word of
\* the move is its signed length in relative format and the total with the
\* length added in absolute format, where that sum is the total the move
\* leaves.
C15_FixedMovesAccounted ==
    [][(Parsed /\ IsMarker(CurrentLine) /\ FixedRetraction)
       => /\ Len(NewEntries(skein, skein')) >= 4
          /\ SubSeq(NewEntries(skein, skein'), 1, 3)
               = << MoveF(60 * repository.extruderRetractionSpeed),
                    MoveE(AccountedWord(skein,
                                        FixedMoveLength(skein, CurrentLine))),
                    MoveF(Val(skein.feedRateMinute)) >>
          /\ NewEWords(skein, skein')
               = << Some(AccountedWord(skein,
                                       FixedMoveLength(skein, CurrentLine))) >>
          /\ LastEntry(skein') = CurrentLine
          /\ \/ skein'.totalExtrusionDistance
                  = IF repository.relativeExtrusionDistance
                      THEN skein.totalExtrusionDistance
                      ELSE AccountedWord(skein,
                                         FixedMoveLength(skein, CurrentLine))
             \/ /\ CurrentLine.word = "M101"
                /\ NewEntries(skein, skein')[4] = Line("G92 E0")
                /\ skein'.totalExtrusionDistance = 0]_vars

\* In absolute format an M103 was parsed whose retraction move took the
\* total below zero and was written with that total, after a restart move
\* written with the restart distance.
C15_RetractedBelowZero ==
    /\ FixedRetraction
    /\ ~repository.relativeExtrusionDistance
    /\ HasParsed
    /\ ParsedLine.word = "M103"
    /\ skein.totalExtrusionDistance < 0
    /\ Len(skein.output) >= 4
    /\ skein.output[Len(skein.output) - 2]
         = MoveE(skein.totalExtrusionDistance)
    /\ \E k \in 1..Len(skein.output) : skein.output[k] = MoveE(restartDistance)

\* The place in the output of the last M101 or M103 line written, 0 when
\* there is none.
LastMarkerPlace(out) ==
    IF \E k \in 1..Len(out) : IsMarker(out[k])
      THEN CHOOSE k \in 1..Len(out) :
             /\ IsMarker(out[k])
             /\ \A j \in (k + 1)..Len(out) : ~IsMarker(out[j])
      ELSE 0

\* The last marker written is an M103 line, after its retraction move.
DeactivatedLast(out) ==
    /\ LastMarkerPlace(out) > 3
    /\ out[LastMarkerPlace(out)].word = "M103"
    /\ HasE(out[LastMarkerPlace(out) - 2])

\* The E word of the retraction move of the last M103 line written.
LastRetractionWord(out) == Val(out[LastMarkerPlace(out) - 2].e)

\* a and b differ by at most the fixed-point unit.
WithinUnit(a, b) == a - b <= 1 /\ b - a <= 1

\* C16: with adaptive retraction, the retraction move of an M103 line has
\* the signed length -(L * 10 - afterOoze) / reduction, L being the adaptive
\* length after the lookahead of that line, which is the retract distance of
\* its lookahead held to the limits when the lookahead returns a distance;
\* the restart move of an M101 line has the length L * 10 / reduction; L and
\* the reduction do not change from an M103 line to the M101 line after it,
\* so that in relative format the two E words of an M103 and the M101 after
\* it add up to afterOoze / reduction, to within the fixed-point unit.
C16_AdaptivePairAddsUp ==
    /\ [][(AdaptiveMove /\ CurrentLine.word = "M103")
          => /\ NewEWords(skein, skein')
                  = << Some(AccountedWord(skein,
                         Div(-(skein'.autoRetractDistance * 10
                               - repository.afterOooze),
                             skein.extrusionReduction))) >>
             /\ GetDistanceToNextThread(skein, lineIndex).value # None
                  => /\ skein'.timeToNextThread # None
                     /\ HeldToLimits(
                          RetractDistance(Val(skein'.timeToNextThread)),
                          skein'.autoRetractDistance)
             /\ skein'.extrusionReduction = skein.extrusionReduction]_vars
    /\ [][(AdaptiveMove /\ CurrentLine.word = "M101")
          => /\ NewEWords(skein, skein')
                  = << Some(AccountedWord(skein,
                         Div(skein.autoRetractDistance * 10,
                             skein.extrusionReduction))) >>
             /\ DeactivatedLast(skein.output)
                  /\ repository.relativeExtrusionDistance
                  => WithinUnit(LastRetractionWord(skein.output)
                                + Val(NewEWords(skein, skein')[1]),
                                Div(repository.afterOooze,
                                    skein.extrusionReduction))]_vars
    /\ [][(Parsed /\ CurrentLine.word # "M103" /\ ~skein.isExtruderActive)
          => /\ skein'.autoRetractDistance = skein.autoRetractDistance
             /\ skein'.extrusionReduction = skein.extrusionReduction]_vars

\* In relative format an M101 was parsed after an M103 whose lookahead
\* returned a distance: the retraction move was written with a length below
\* zero, the restart move with the adaptive length of that lookahead.
C16_PairWritten ==
    /\ AdaptiveRetraction
    /\ repository.relativeExtrusionDistance
    /\ HasParsed
    /\ ParsedLine.word = "M101"
    /\ skein.timeToNextThread # None
    /\ skein.autoRetractDistance >= repository.minRetract
    /\ Len(skein.output) >= 8
    /\ skein.output[Len(skein.output) - 3]
         = MoveE(Div(skein.autoRetractDistance * 10, skein.extrusionReduction))
    /\ \E k \in 4..(Len(skein.output) - 5) :
         /\ skein.output[k].word = "M103"
         /\ \A j \in (k + 1)..(Len(skein.output) - 1) :
              ~IsMarker(skein.output[j])
         /\ skein.output[k - 2]
              = MoveE(Div(-(skein.autoRetractDistance * 10
                            - repository.afterOooze),
                          skein.extrusionReduction))
         /\ Val(skein.output[k - 2].e) < 0

\* A travel d added to the travel of the lines that follow, None when they
\* reach no M101 line.
AddTravel(d, rest) == IF rest = None THEN None ELSE Some(d + Val(rest))

\* The travel accumulated over the linear moves from line i (1-based) up to
\* the next M101 line, from location loc, the Z part of each move scaled by
\* ratio: None when no M101 line follows.
RECURSIVE TravelUntilActivation(_, _, _, _)
TravelUntilActivation(ls, i, loc, ratio) ==
    IF i > Len(ls) THEN None
    ELSE IF FirstWord(ls[i]) = "M101" THEN Some(0)
    ELSE IF FirstWord(ls[i]) = "G1"
      THEN AddTravel(
             Travel(loc, GetLocationFromSplitLine(Some(loc), ls[i]), ratio),
             TravelUntilActivation(ls, i + 1,
                 GetLocationFromSplitLine(Some(loc), ls[i]), ratio))
    ELSE TravelUntilActivation(ls, i + 1, loc, ratio)

\* C17: the distance the lookahead of an M103 line returns is the travel
\* accumulated over the moves between that line and the next M101 line, from
\* the location at the M103 line; moves after the M101 line add nothing.
C17_TravelUpToActivation ==
    [][(/\ AdaptiveDeactivate
        /\ skein.absoluteDistanceMode
        /\ skein.oldLocation # None
        /\ GetDistanceToNextThread(skein, lineIndex).value # None)
       => GetDistanceToNextThread(skein, lineIndex).value
            = TravelUntilActivation(lines, lineIndex + 2,
                                    Val(skein.oldLocation),
                                    skein.zDistanceRatio)]_vars

\* C18: when the initialization gives a travel feed rate and a maximum Z
\* travel feed rate, the factor of the Z distance in the lookahead is their
\* quotient from the start of the main loop on.
C18_ScalesByFeedRates ==
    (/\ InMainPhase
     /\ skein.travelFeedRatePerSecond # None
     /\ skein.maximumZTravelFeedRatePerSecond # None)
    => skein.zDistanceRatio
         = Div(Val(skein.travelFeedRatePerSecond),
               Val(skein.maximumZTravelFeedRatePerSecond))

\* C19: in absolute mode an arc line leaves the location at its target, the
\* axes it omits kept from the location before; with no location stored it
\* is written as read and stores none.
C19_ArcEndsAtTarget ==
    [][(/\ ParsingLine
        /\ CurrentLine.word \in {"G2", "G3"}
        /\ skein.absoluteDistanceMode)
       => /\ pc' = "parseLine"
          /\ IF skein.oldLocation = None
               THEN /\ skein'.oldLocation = None
                    /\ NewEntries(skein, skein') = << CurrentLine >>
               ELSE skein'.oldLocation
                      = Some(GetLocationFromSplitLine(skein.oldLocation,
                                                      CurrentLine))]_vars

\* The location after linear move l read in state s: in absolute mode the
\* target, the axes it omits kept; in relative mode the location before, the
\* origin when there is none, with the axes of the move added.
PositionAfter(s, l) ==
    IF s.absoluteDistanceMode THEN GetLocationFromSplitLine(s.oldLocation, l)
    ELSE VAdd(IF s.oldLocation = None THEN Origin ELSE Val(s.oldLocation),
              GetLocationFromSplitLine(None, l))

\* The norm of the step of linear move l read in state s, 0 with no location
\* before it.
StepNorm(s, l) ==
    IF s.oldLocation = None /\ s.absoluteDistanceMode THEN 0
    ELSE VAbs(VSub(PositionAfter(s, l),
                   IF s.oldLocation = None THEN Origin ELSE Val(s.oldLocation)))

\* C20: the motion mode is absolute until the main loop starts and changes
\* only at G90 lines, to absolute, and at G91 lines, to relative; every linear
\* move is parsed through and leaves the location at PositionAfter, and the
\* distance it is dimensioned with is StepNorm: it is written with the feed
\* length of that distance when the extruder is active and the distance is
\* above zero, and with no E word otherwise.
C20_PositionFollowsMode ==
    /\ [](pc \in {"parseInitialization", "parseBoundaries"}
            => skein.absoluteDistanceMode)
    /\ [][Parsed
          => skein'.absoluteDistanceMode
               = IF CurrentLine.word = "G90" THEN TRUE
                 ELSE IF CurrentLine.word = "G91" THEN FALSE
                 ELSE skein.absoluteDistanceMode]_vars
    /\ [][(ParsingLine /\ CurrentLine.word = "G1")
          => /\ pc' = "parseLine"
             /\ skein'.oldLocation = Some(PositionAfter(skein, CurrentLine))
             /\ NewEntries(skein, skein')
                  = << [CurrentLine EXCEPT !.e =
                          IF skein.isExtruderActive
                               /\ StepNorm(skein, CurrentLine) > 0
                            THEN Some(AccountedWord(skein,
                                   FormulaFeedLength(skein,
                                     StepNorm(skein, CurrentLine))))
                            ELSE None] >>]_vars

\* States s and s2 agree on the location, the motion mode, the extruder
\* state, the feed rate, the total feed length, the layer index and the
\* output.
SameSynthesisState(s, s2) ==
    /\ s2.oldLocation = s.oldLocation
    /\ s2.absoluteDistanceMode = s.absoluteDistanceMode
    /\ s2.isExtruderActive = s.isExtruderActive
    /\ s2.feedRateMinute = s.feedRateMinute
    /\ s2.totalExtrusionDistance = s.totalExtrusionDistance
    /\ s2.layerIndex = s.layerIndex
    /\ s2.output = s.output

\* An M103 line is about to be parsed with adaptive retraction: its branch
\* calls the lookahead.
LookaheadDue ==
    /\ ParsingLine
    /\ CurrentLine.word = "M103"
    /\ ~repository.activateFixedRetract
    /\ repository.activateAdaptiveRetract

\* C21: the lookahead called at an M103 line leaves the location, the motion
\* mode, the extruder state, the feed rate, the total feed length, the layer
\* index and the output as they are, whether it returns a distance, returns
\* none or raises, and its scan stops at a line of the input or at its end;
\* the whole step of the M103 line leaves the lines, the location, the motion
\* mode, the feed rate and the layer index as they are and adds to the
\* output and to the total only its retraction move and the line itself.
C21_LookaheadReadsOnly ==
    /\ [](LookaheadDue
            => /\ SameSynthesisState(
                    skein, GetDistanceToNextThread(skein, lineIndex).skein)
               /\ NextThreadLine(lines, lineIndex + 2, FALSE)
                    \in {0} \cup ((lineIndex + 2)..Len(lines)))
    /\ [][AdaptiveDeactivate
          => /\ lines' = lines
             /\ skein'.oldLocation = skein.oldLocation
             /\ skein'.absoluteDistanceMode = skein.absoluteDistanceMode
             /\ skein'.feedRateMinute = skein.feedRateMinute
             /\ skein'.layerIndex = skein.layerIndex
             /\ ~skein'.isExtruderActive
             /\ skein'.totalExtrusionDistance
                  = RestartedTotal(skein, skein', CurrentLine)
             /\ NewEntries(skein, skein')
                  = IF repository.extruderRetractionSpeed = 0
                      THEN << CurrentLine >>
                      ELSE << MoveF(60 * repository.extruderRetractionSpeed),
                              MoveE(AccountedWord(skein,
                                Val(OwnLength(skein, skein', CurrentLine)))),
                              MoveF(Val(skein.feedRateMinute)),
                              CurrentLine >>]_vars

\* An M103 line was parsed whose lookahead returned a distance and stored the
\* time and the adaptive length, the location being where the move before
\* the M103 line left it.
C21_LookaheadStoredLength ==
    /\ HasParsed
    /\ ParsedLine.word = "M103"
    /\ ~repository.activateFixedRetract
    /\ repository.activateAdaptiveRetract
    /\ ~repository.retractWithinIsland
    /\ skein.timeToNextThread # None
    /\ skein.autoRetractDistance > 0
    /\ skein.oldLocation = Some(Vector3(1, 0, 0))
    /\ ~skein.isExtruderActive
    /\ LastEntry(skein) = ParsedLine

\* C22: a motion line parsed with the extruder active is dimensioned with
\* the flow rate given last, by the operating flow rate of the
\* initialization or by an M108 line, which is the stored operating flow
\* rate.
C22_AnnotationSetsFlowRate ==
    [][(ExtrudingMove /\ skein.operatingFlowRate # None)
       => NewEWords(skein, skein')
            = << Some(AccountedWord(skein,
                   FormulaFeedLength(
                     [skein EXCEPT !.flowRate = Val(skein.operatingFlowRate)],
                     Val(TravelDistance(skein, CurrentLine))))) >>]_vars

\* A line the pass writes of its own: the procedure tag, a mode declaration,
\* a reset, or a move with no axis word.
NotSynthesized(l) ==
    /\ l.word \notin {"(<procedureName>", "M82", "M83", "G92 E0"}
    /\ ~(l.word = "G1" /\ l.x = None /\ l.y = None /\ l.z = None)

\* The lines of the output that come from the input, without their E word
\* and leading white space; the lines of the input without theirs.
Unadorned(ls) ==
    [k \in 1..Len(ls) |-> [ls[k] EXCEPT !.e = None, !.lead = FALSE]]
InputLinesWritten(out) == Unadorned(SelectSeq(out, NotSynthesized))

\* C23: when the pass returns on an input all of whose lines have a word,
\* the lines written that come from the input are the lines of the input,
\* each once and in order, with or without the line that ends the
\* initialization.
C23_EveryLineOnce ==
    (/\ pc = "returned"
     /\ \A k \in 1..Len(lines) : lines[k].word \notin NoWordWords)
    => InputLinesWritten(skein.output) = Unadorned(lines)

\* Fixed and adaptive retraction are both activated, with a retraction
\* speed.
BothRetractions ==
    /\ repository.activateFixedRetract
    /\ repository.activateAdaptiveRetract
    /\ repository.extruderRetractionSpeed # 0

\* C24: with fixed and adaptive retraction both activated, an M101 or M103
\* line writes one move, of the fixed length, and changes neither the
\* adaptive length, the retraction ratio nor the time the lookahead stores;
\* these keep their initial values 0, 1 and None through the pass.
C24_FixedAloneApplies ==
    /\ [][(Parsed /\ IsMarker(CurrentLine) /\ BothRetractions)
          => /\ NewEWords(skein, skein')
                  = << Some(AccountedWord(skein,
                         FixedMoveLength(skein, CurrentLine))) >>
             /\ skein'.autoRetractDistance = skein.autoRetractDistance
             /\ skein'.retractionRatio = skein.retractionRatio
             /\ skein'.timeToNextThread = skein.timeToNextThread]_vars
    /\ [](BothRetractions
            => /\ skein.autoRetractDistance = 0
               /\ skein.retractionRatio = Scale
               /\ skein.timeToNextThread = None)

\* With both retractions activated an M103 line was parsed from a stored
\* location with an M101 line and a move after it, its retraction move
\* written with the fixed length, and no lookahead has stored a time.
C24_FixedMoveBeforeThread ==
    /\ BothRetractions
    /\ HasParsed
    /\ ParsedLine.word = "M103"
    /\ skein.oldLocation # None
    /\ lineIndex + 2 <= Len(lines)
    /\ lines[lineIndex + 1].word = "M101"
    /\ lines[lineIndex + 2].word = "G1"
    /\ skein.timeToNextThread = None
    /\ skein.autoRetractDistance = 0
    /\ Len(skein.output) >= 4
    /\ skein.output[Len(skein.output) - 2]
         = MoveE(skein.totalExtrusionDistance)
    /\ skein.totalExtrusionDistance = -repository.retractionDistance

====
